---- MODULE Spec2Model ----
(***************************************************************************)
(* A model of include/DexClass.h: the interned entities of a dex file      *)
(* (DexString, DexType, DexTypeList, DexProto, DexField, DexMethod), the   *)
(* DexClass aggregate, and the DexSpec orderings compare_dex*.             *)
(*                                                                         *)
(* Objects live in per-kind heaps (sequences); a pointer is an index into  *)
(* the heap of its kind and nullptr is NULL.  The registry g_redex         *)
(* (RedexContext) is declared outside DexClass.h; its tables and           *)
(* operations are modelled from the specification's section 4.1.           *)
(***************************************************************************)
EXTENDS Integers, Sequences, FiniteSets, TLC

\* nullptr
NULL == 0

(***************************************************************************)
(* Bounds of the model.                                                    *)
(***************************************************************************)
\* longest type list passed to make_type_list / get_type_list
MaxListLen == 1
\* how many DexType, DexTypeList, DexProto, DexField and DexMethod objects a run
\* from the empty registry may create in all
MaxObjects == 4
\* how many further DexType and DexMethod objects a run of the re-keying calls
\* may create
MaxRekeyObjects == 2

\* how many annotation sets there are to attach
NumAnnoSets == 2
\* the highest parameter number an annotation set is attached to
MaxParam == 0
\* how many annotation sets the model lets one member be given, one after the
\* other, over its lifetime
MaxAttach == 2
\* how many members a caller pushes onto one member list of a class
MaxMembers == 1

\* longest text, in code points, a compared string holds
MaxStrLen == 2
\* how many texts are interned before strings are compared
NumCmpStrings == 3
\* longest type list compared
MaxCmpListLen == 2
\* how many type lists are interned before two type lists are compared
NumTypeLists == 2
\* longest list of methods sorted
MaxSortLen == 3
\* code units of the long text that is encoded
LongLen == 128
\* bytes of the output past the entry
EncodeSlack == 2
\* how many types, names and prototypes the compared fields and methods range over
NumCmpKeys == 2

(***************************************************************************)
(* Byte strings.  A C string is a sequence of non-zero bytes; the dex      *)
(* format stores text as MUTF-8, where U+0000 is the two bytes C0 80, so   *)
(* no encoded text holds a zero byte.                                      *)
(***************************************************************************)
\* The MUTF-8 bytes of one UTF-16 code unit.
EncodeUnit(cp) ==
  IF cp >= 1 /\ cp <= 127 THEN << cp >>
  ELSE IF cp <= 2047 THEN << 192 + (cp \div 64), 128 + (cp % 64) >>
  ELSE << 224 + (cp \div 4096), 128 + ((cp \div 64) % 64), 128 + (cp % 64) >>

RECURSIVE Encode(_)
Encode(cps) ==
  IF cps = << >> THEN << >> ELSE EncodeUnit(Head(cps)) \o Encode(Tail(cps))

\* strlen
strlen(s) == Len(s)

\* A text as a caller passes it: the bytes and the length in UTF-16 code units
\* (what a dex file's string_data_item holds).
Text(cps) == [nstr |-> Encode(cps), utfsize |-> Len(cps)]

\* The names the interning calls are made with: "a" and "\u0000".
NamePool == { Text(<< 97 >>), Text(<< 0 >>) }

Lookup(map, k) == IF k \in DOMAIN map THEN map[k] ELSE NULL
Erase(map, k) == [x \in (DOMAIN map) \ {k} |-> map[x]]
Put(map, k, v) == [x \in (DOMAIN map) \cup {k} |-> IF x = k THEN v ELSE map[x]]

VARIABLES
  strings,          \* heap of DexString: [cstr, utfsize]
  s_string_map,     \* g_redex: text -> DexString*
  types,            \* heap of DexType: [m_name]
  s_type_map,       \* g_redex: DexString* -> DexType*
  typelists,        \* heap of DexTypeList: [m_list]
  s_typelist_map,   \* g_redex: list of DexType* -> DexTypeList*
  protos,           \* heap of DexProto: [m_rtype, m_args]
  s_proto_map,      \* g_redex: <<rtype, args>> -> DexProto*
  fields,           \* heap of DexField
  s_field_map,      \* g_redex: <<container, name, type>> -> DexField*
  methods,          \* heap of DexMethod
  s_method_map,     \* g_redex: <<type, name, proto>> -> DexMethod*
  classes,          \* heap of DexClass
  ndebug,           \* the build: TRUE when NDEBUG is defined, so assert() is compiled out
  quota,            \* how many more objects the run may create
  ret               \* the last comparison made and its result

heaps == << strings, types, typelists, protos, fields, methods >>
tables == << s_string_map, s_type_map, s_typelist_map, s_proto_map, s_field_map, s_method_map >>
vars == << heaps, tables, classes, ndebug, quota, ret >>

(***************************************************************************)
(* Constructors (private; only the registry calls them).                   *)
(***************************************************************************)
DexString_new(nstr, utfsize) == [cstr |-> nstr, utfsize |-> utfsize]

DexType_new(dstring) == [m_name |-> dstring]

DexTypeList_new(p) == [m_list |-> p]

DexProto_new(rtype, args) == [m_rtype |-> rtype, m_args |-> args]

\* n_attached is history, not a field of the class: how many times an
\* annotation set was attached to the member so far.
DexField_new(container, name, type) ==
  [m_class |-> container, m_name |-> name, m_type |-> type,
   m_anno |-> NULL, m_access |-> 0, m_concrete |-> FALSE, m_external |-> FALSE,
   n_attached |-> 0]

DexMethod_new(type, name, proto) ==
  [m_class |-> type, m_name |-> name, m_proto |-> proto,
   m_anno |-> NULL, m_param_anno |-> << >>, m_code |-> NULL, m_access |-> 0,
   m_concrete |-> FALSE, m_virtual |-> FALSE, m_external |-> FALSE,
   n_attached |-> 0]

(***************************************************************************)
(* The registry (RedexContext), one table per kind.  Each operation takes  *)
(* the heap and the table of its kind and gives the new heap, the new      *)
(* table and the pointer returned.  make_X returns the object the table    *)
(* holds under the key, creating and inserting it when there is none;      *)
(* get_X only looks the key up.                                            *)
(***************************************************************************)
Ctx(h, m, v) == [heap |-> h, map |-> m, val |-> v]

Intern(h, m, key, obj) ==
  IF key \in DOMAIN m THEN Ctx(h, m, m[key])
  ELSE Ctx(Append(h, obj), Put(m, key, Len(h) + 1), Len(h) + 1)

\* the text is the key; utfsize is recorded when the string is created
g_make_string(h, m, nstr, utfsize) == Intern(h, m, nstr, DexString_new(nstr, utfsize))

g_get_string(h, m, nstr, utfsize) == Ctx(h, m, Lookup(m, nstr))

g_make_type(h, m, dstring) == Intern(h, m, dstring, DexType_new(dstring))

\* a null string names no type
g_get_type(h, m, dstring) == Ctx(h, m, Lookup(m, dstring))

g_make_type_list(h, m, p) == Intern(h, m, p, DexTypeList_new(p))

g_get_type_list(h, m, p) == Ctx(h, m, Lookup(m, p))

g_make_proto(h, m, rtype, args) == Intern(h, m, << rtype, args >>, DexProto_new(rtype, args))

g_get_proto(h, m, rtype, args) == Ctx(h, m, Lookup(m, << rtype, args >>))

g_make_field(h, m, container, name, type) ==
  Intern(h, m, << container, name, type >>, DexField_new(container, name, type))

g_get_field(h, m, container, name, type) == Ctx(h, m, Lookup(m, << container, name, type >>))

g_make_method(h, m, type, name, proto) ==
  Intern(h, m, << type, name, proto >>, DexMethod_new(type, name, proto))

g_get_method(h, m, type, name, proto) == Ctx(h, m, Lookup(m, << type, name, proto >>))

\* Re-keying: remove the old key, change the entity in place, insert the new key.
g_alias_type_name(h, m, type, new_name) ==
  Ctx([h EXCEPT ![type].m_name = new_name],
      Put(Erase(m, h[type].m_name), new_name, type),
      type)

MethodKey(meth) == << meth.m_class, meth.m_name, meth.m_proto >>

g_mutate_method_class(h, m, method, cls) ==
  LET h2 == [h EXCEPT ![method].m_class = cls] IN
  Ctx(h2, Put(Erase(m, MethodKey(h[method])), MethodKey(h2[method]), method), method)

g_mutate_method_proto(h, m, method, proto) ==
  LET h2 == [h EXCEPT ![method].m_proto = proto] IN
  Ctx(h2, Put(Erase(m, MethodKey(h[method])), MethodKey(h2[method]), method), method)

(***************************************************************************)
(* The static factories and lookups of DexClass.h.                         *)
(***************************************************************************)
DexString_make_string(h, m, nstr, utfsize) == g_make_string(h, m, nstr, utfsize)

DexString_make_string_cstr(h, m, nstr) == DexString_make_string(h, m, nstr, strlen(nstr))

DexString_get_string(h, m, nstr, utfsize) == g_get_string(h, m, nstr, utfsize)

DexString_get_string_cstr(h, m, nstr) == DexString_get_string(h, m, nstr, strlen(nstr))

DexType_make_type(h, m, dstring) == g_make_type(h, m, dstring)

DexType_get_type(h, m, dstring) == g_get_type(h, m, dstring)

\* The text overloads work on the string table and the type table together:
\* they give the two new heaps and tables and the DexType* returned.
Ctx2(sr, tr) == [sheap |-> sr.heap, smap |-> sr.map, heap |-> tr.heap, map |-> tr.map, val |-> tr.val]

DexType_make_type_cstr(sh, sm, h, m, type_string) ==
  LET sr == DexString_make_string_cstr(sh, sm, type_string) IN
  Ctx2(sr, DexType_make_type(h, m, sr.val))

DexType_make_type_cstr_len(sh, sm, h, m, type_string, utfsize) ==
  LET sr == DexString_make_string(sh, sm, type_string, utfsize) IN
  Ctx2(sr, DexType_make_type(h, m, sr.val))

\* a lookup by text that interns the text on the way
DexType_get_type_cstr_making(sh, sm, h, m, type_string) ==
  LET sr == DexString_make_string_cstr(sh, sm, type_string) IN
  Ctx2(sr, DexType_get_type(h, m, sr.val))

DexType_get_type_cstr(sh, sm, h, m, type_string) ==
  LET sr == DexString_get_string_cstr(sh, sm, type_string) IN
  Ctx2(sr, DexType_get_type(h, m, sr.val))

DexType_get_type_cstr_len(sh, sm, h, m, type_string, utfsize) ==
  LET sr == DexString_get_string(sh, sm, type_string, utfsize) IN
  Ctx2(sr, DexType_get_type(h, m, sr.val))

DexTypeList_make_type_list(h, m, p) == g_make_type_list(h, m, p)

DexTypeList_get_type_list(h, m, p) == g_get_type_list(h, m, p)

DexProto_make_proto(h, m, rtype, args) == g_make_proto(h, m, rtype, args)

DexProto_get_proto(h, m, rtype, args) == g_get_proto(h, m, rtype, args)

DexField_make_field(h, m, container, name, type) == g_make_field(h, m, container, name, type)

\* a lookup that passes the container and the field type in each other's place
DexField_get_field_swapped(h, m, container, name, type) == g_get_field(h, m, type, name, container)

DexField_get_field(h, m, container, name, type) == g_get_field(h, m, container, name, type)

DexMethod_make_method(h, m, type, name, proto) == g_make_method(h, m, type, name, proto)

DexMethod_get_method(h, m, type, name, proto) == g_get_method(h, m, type, name, proto)

DexType_assign_name_alias(h, m, this, new_name) == g_alias_type_name(h, m, this, new_name)

\* a retargeting that passes the method's own class instead of the argument
DexMethod_change_class_self(h, m, this, cls) == g_mutate_method_class(h, m, this, h[this].m_class)

DexMethod_change_class(h, m, this, cls) == g_mutate_method_class(h, m, this, cls)

DexMethod_change_proto(h, m, this, proto) == g_mutate_method_proto(h, m, this, proto)

(***************************************************************************)
(* Calls of the factories, the lookups and the re-keying methods.          *)
(***************************************************************************)
Ret(op, val) == [op |-> op, val |-> val]

StringPtrs == 1..Len(strings)
TypePtrs == 1..Len(types)
TypeListPtrs == 1..Len(typelists)
ProtoPtrs == 1..Len(protos)
FieldPtrs == 1..Len(fields)
MethodPtrs == 1..Len(methods)

\* the lists of at most MaxListLen existing types
TypeSeqs == UNION { [1..n -> TypePtrs] : n \in 0..MaxListLen }

\* a call may create an object while the quota lasts
MayCreate(h, h2) ==
  /\ Len(h2) = Len(h) \/ quota > 0
  /\ quota' = quota - (Len(h2) - Len(h))

StringCall(r) ==
  /\ strings' = r.heap
  /\ s_string_map' = r.map
  /\ UNCHANGED << classes, ndebug, quota, ret >>
  /\ UNCHANGED << types, typelists, protos, fields, methods >>
  /\ UNCHANGED << s_type_map, s_typelist_map, s_proto_map, s_field_map, s_method_map >>

\* DexString::make_string(nstr, utfsize)
MakeString(n) ==
  StringCall(DexString_make_string(strings, s_string_map, n.nstr, n.utfsize))

\* DexString::make_string(nstr)
MakeStringCstr(n) ==
  StringCall(DexString_make_string_cstr(strings, s_string_map, n.nstr))

\* DexString::get_string(nstr, utfsize)
GetString(n) ==
  StringCall(DexString_get_string(strings, s_string_map, n.nstr, n.utfsize))

\* DexString::get_string(nstr)
GetStringCstr(n) ==
  StringCall(DexString_get_string_cstr(strings, s_string_map, n.nstr))

TypeCall(r) ==
  /\ MayCreate(types, r.heap)
  /\ types' = r.heap
  /\ s_type_map' = r.map
  /\ UNCHANGED << classes, ndebug, ret >>
  /\ UNCHANGED << strings, typelists, protos, fields, methods >>
  /\ UNCHANGED << s_string_map, s_typelist_map, s_proto_map, s_field_map, s_method_map >>

TypeTextCall(r) ==
  /\ MayCreate(types, r.heap)
  /\ strings' = r.sheap
  /\ s_string_map' = r.smap
  /\ types' = r.heap
  /\ s_type_map' = r.map
  /\ UNCHANGED << classes, ndebug, ret >>
  /\ UNCHANGED << typelists, protos, fields, methods >>
  /\ UNCHANGED << s_typelist_map, s_proto_map, s_field_map, s_method_map >>

\* DexType::make_type(DexString*)
MakeType(s) == TypeCall(DexType_make_type(types, s_type_map, s))

\* DexType::make_type(const char*)
MakeTypeCstr(n) ==
  TypeTextCall(DexType_make_type_cstr(strings, s_string_map, types, s_type_map, n.nstr))

\* DexType::make_type(const char*, int)
MakeTypeCstrLen(n) ==
  TypeTextCall(DexType_make_type_cstr_len(strings, s_string_map, types, s_type_map, n.nstr, n.utfsize))

\* DexType::get_type(DexString*)
GetType(s) == TypeCall(DexType_get_type(types, s_type_map, s))

\* DexType::get_type(const char*)
GetTypeCstr(n) ==
  TypeTextCall(DexType_get_type_cstr(strings, s_string_map, types, s_type_map, n.nstr))

\* DexType::get_type(const char*, int)
GetTypeCstrLen(n) ==
  TypeTextCall(DexType_get_type_cstr_len(strings, s_string_map, types, s_type_map, n.nstr, n.utfsize))

\* DexType::assign_name_alias
AssignNameAlias(t, new_name) ==
  LET r == DexType_assign_name_alias(types, s_type_map, t, new_name) IN
  /\ types' = r.heap
  /\ s_type_map' = r.map
  /\ UNCHANGED << classes, ndebug, quota, ret >>
  /\ UNCHANGED << strings, typelists, protos, fields, methods >>
  /\ UNCHANGED << s_string_map, s_typelist_map, s_proto_map, s_field_map, s_method_map >>

TypeListCall(r) ==
  /\ MayCreate(typelists, r.heap)
  /\ typelists' = r.heap
  /\ s_typelist_map' = r.map
  /\ UNCHANGED << classes, ndebug, ret >>
  /\ UNCHANGED << strings, types, protos, fields, methods >>
  /\ UNCHANGED << s_string_map, s_type_map, s_proto_map, s_field_map, s_method_map >>

\* DexTypeList::make_type_list
MakeTypeList(p) ==
  TypeListCall(DexTypeList_make_type_list(typelists, s_typelist_map, p))

\* DexTypeList::get_type_list
GetTypeList(p) ==
  TypeListCall(DexTypeList_get_type_list(typelists, s_typelist_map, p))

ProtoCall(r) ==
  /\ MayCreate(protos, r.heap)
  /\ protos' = r.heap
  /\ s_proto_map' = r.map
  /\ UNCHANGED << classes, ndebug, ret >>
  /\ UNCHANGED << strings, types, typelists, fields, methods >>
  /\ UNCHANGED << s_string_map, s_type_map, s_typelist_map, s_field_map, s_method_map >>

\* DexProto::make_proto
MakeProto(rtype, args) ==
  ProtoCall(DexProto_make_proto(protos, s_proto_map, rtype, args))

\* DexProto::get_proto
GetProto(rtype, args) ==
  ProtoCall(DexProto_get_proto(protos, s_proto_map, rtype, args))

FieldCall(r) ==
  /\ MayCreate(fields, r.heap)
  /\ fields' = r.heap
  /\ s_field_map' = r.map
  /\ UNCHANGED << classes, ndebug, ret >>
  /\ UNCHANGED << strings, types, typelists, protos, methods >>
  /\ UNCHANGED << s_string_map, s_type_map, s_typelist_map, s_proto_map, s_method_map >>

\* DexField::make_field
MakeField(container, name, type) ==
  FieldCall(DexField_make_field(fields, s_field_map, container, name, type))

\* DexField::get_field
GetField(container, name, type) ==
  FieldCall(DexField_get_field(fields, s_field_map, container, name, type))

MethodCall(r) ==
  /\ MayCreate(methods, r.heap)
  /\ methods' = r.heap
  /\ s_method_map' = r.map
  /\ UNCHANGED << classes, ndebug, ret >>
  /\ UNCHANGED << strings, types, typelists, protos, fields >>
  /\ UNCHANGED << s_string_map, s_type_map, s_typelist_map, s_proto_map, s_field_map >>

\* DexMethod::make_method(DexType*, DexString*, DexProto*)
MakeMethod(type, name, proto) ==
  MethodCall(DexMethod_make_method(methods, s_method_map, type, name, proto))

\* DexMethod::get_method
GetMethod(type, name, proto) ==
  MethodCall(DexMethod_get_method(methods, s_method_map, type, name, proto))

\* DexMethod::change_class
ChangeClass(meth, cls) ==
  MethodCall(DexMethod_change_class(methods, s_method_map, meth, cls))

\* DexMethod::change_proto
ChangeProto(meth, proto) ==
  MethodCall(DexMethod_change_proto(methods, s_method_map, meth, proto))

Init ==
  /\ strings = << >>
  /\ s_string_map = << >>
  /\ types = << >>
  /\ s_type_map = << >>
  /\ typelists = << >>
  /\ s_typelist_map = << >>
  /\ protos = << >>
  /\ s_proto_map = << >>
  /\ fields = << >>
  /\ s_field_map = << >>
  /\ methods = << >>
  /\ s_method_map = << >>
  /\ classes = << >>
  /\ ndebug \in BOOLEAN
  /\ quota = MaxObjects
  /\ ret = Ret("none", NULL)

\* make_X and get_X of the six interned kinds
MakeGet ==
  \/ \E n \in NamePool : MakeString(n) \/ MakeStringCstr(n) \/ GetString(n) \/ GetStringCstr(n)
  \/ \E n \in NamePool : MakeTypeCstr(n) \/ MakeTypeCstrLen(n) \/ GetTypeCstr(n) \/ GetTypeCstrLen(n)
  \/ \E s \in StringPtrs : MakeType(s) \/ GetType(s)
  \/ \E p \in TypeSeqs : MakeTypeList(p) \/ GetTypeList(p)
  \/ \E rtype \in TypePtrs, args \in TypeListPtrs : MakeProto(rtype, args) \/ GetProto(rtype, args)
  \/ \E c \in TypePtrs, n \in StringPtrs, t \in TypePtrs : MakeField(c, n, t) \/ GetField(c, n, t)
  \/ \E c \in TypePtrs, n \in StringPtrs, p \in ProtoPtrs : MakeMethod(c, n, p) \/ GetMethod(c, n, p)

\* the re-keying calls
Rekey ==
  \/ \E t \in TypePtrs, s \in StringPtrs : AssignNameAlias(t, s)
  \/ \E m \in MethodPtrs, cls \in TypePtrs : ChangeClass(m, cls)
  \/ \E m \in MethodPtrs, p \in ProtoPtrs : ChangeProto(m, p)

Next == MakeGet \/ Rekey

Spec == Init /\ [][Next]_vars

\* the runs that only make and get
SpecMakeGet == Init /\ [][MakeGet]_vars

(***************************************************************************)
(* Re-keying runs start from the registry as it is after a dex file with   *)
(* two types, the empty type list and two prototypes was loaded.           *)
(***************************************************************************)
LoadedT1 == DexType_make_type_cstr(<< >>, << >>, << >>, << >>, Text(<< 97 >>).nstr)
LoadedT2 ==
  DexType_make_type_cstr_len(LoadedT1.sheap, LoadedT1.smap, LoadedT1.heap, LoadedT1.map,
                             Text(<< 0 >>).nstr, Text(<< 0 >>).utfsize)
LoadedL == DexTypeList_make_type_list(<< >>, << >>, << >>)
LoadedP1 == DexProto_make_proto(<< >>, << >>, LoadedT1.val, LoadedL.val)
LoadedP2 == DexProto_make_proto(LoadedP1.heap, LoadedP1.map, LoadedT2.val, LoadedL.val)

InitRekey ==
  /\ strings = LoadedT2.sheap
  /\ s_string_map = LoadedT2.smap
  /\ types = LoadedT2.heap
  /\ s_type_map = LoadedT2.map
  /\ typelists = LoadedL.heap
  /\ s_typelist_map = LoadedL.map
  /\ protos = LoadedP2.heap
  /\ s_proto_map = LoadedP2.map
  /\ fields = << >>
  /\ s_field_map = << >>
  /\ methods = << >>
  /\ s_method_map = << >>
  /\ classes = << >>
  /\ ndebug \in BOOLEAN
  /\ quota = MaxRekeyObjects
  /\ ret = Ret("none", NULL)

NextRekey ==
  \/ \E s \in StringPtrs : MakeType(s) \/ GetType(s)
  \/ \E t \in TypePtrs, s \in StringPtrs : AssignNameAlias(t, s)
  \/ \E c \in TypePtrs, n \in StringPtrs, p \in ProtoPtrs : MakeMethod(c, n, p) \/ GetMethod(c, n, p)
  \/ \E m \in MethodPtrs, cls \in TypePtrs : ChangeClass(m, cls)
  \/ \E m \in MethodPtrs, p \in ProtoPtrs : ChangeProto(m, p)

SpecRekey == InitRekey /\ [][NextRekey]_vars

(***************************************************************************)
(* Members.  A call on an object yields the object as the call leaves it   *)
(* (obj), the value it returns (val) and whether it ended on the fatal     *)
(* assertion path (fatal); a fatal call leaves the object as it was.       *)
(***************************************************************************)
Done(obj, val) == [obj |-> obj, val |-> val, fatal |-> FALSE]
Fatal(obj) == [obj |-> obj, val |-> NULL, fatal |-> TRUE]

\* assert(e) passes when e holds, and always in a build that defines NDEBUG
assert(e) == ndebug \/ e
\* always_assert(e) passes exactly when e holds, in every build
always_assert(e) == e

\* DexAccessFlags: none, ACC_PUBLIC
AccessFlags == { 0, 1 }
\* DexAnnotationSet*
AnnoSets == 1..NumAnnoSets
\* parameter numbers
ParamNos == 0..MaxParam
\* DexCode*
Codes == { NULL, 1 }

\* DexField::is_def
DexField_is_def(this) == this.m_concrete \/ this.m_external

\* DexField::get_access
DexField_get_access(this) ==
  IF always_assert(DexField_is_def(this)) THEN Done(this, this.m_access) ELSE Fatal(this)

\* DexField::set_access
DexField_set_access(this, access) ==
  IF assert(~this.m_external) THEN Done([this EXCEPT !.m_access = access], NULL)
  ELSE Fatal(this)

DexField_set_external_unchecked(this) ==
  Done([this EXCEPT !.m_external = TRUE], NULL)

\* DexField::set_external
DexField_set_external(this) ==
  IF always_assert(~this.m_concrete) THEN Done([this EXCEPT !.m_external = TRUE], NULL)
  ELSE Fatal(this)

\* DexField::make_concrete(access_flags, v): declared in DexClass.h, defined
\* outside it; the static value v is not modelled
DexField_make_concrete(this, access_flags) ==
  IF this.m_external THEN Fatal(this)
  ELSE Done([this EXCEPT !.m_access = access_flags, !.m_concrete = TRUE], NULL)

\* DexField::clear_annotations
DexField_clear_annotations(this) == Done([this EXCEPT !.m_anno = NULL], NULL)

DexField_attach_annotation_set_concrete(this, aset) ==
  IF this.m_anno = NULL
  THEN Done([this EXCEPT !.m_anno = aset, !.n_attached = @ + 1], NULL)
  ELSE Fatal(this)

\* DexField::attach_annotation_set
DexField_attach_annotation_set(this, aset) ==
  IF this.m_anno = NULL /\ this.m_concrete = FALSE
  THEN Done([this EXCEPT !.m_anno = aset, !.n_attached = @ + 1], NULL)
  ELSE Fatal(this)

\* DexMethod::is_def
DexMethod_is_def(this) == this.m_concrete \/ this.m_external

\* DexMethod::get_access
DexMethod_get_access(this) ==
  IF always_assert(DexMethod_is_def(this)) THEN Done(this, this.m_access) ELSE Fatal(this)

\* DexMethod::set_access
DexMethod_set_access(this, access) ==
  IF assert(~this.m_external) THEN Done([this EXCEPT !.m_access = access], NULL)
  ELSE Fatal(this)

\* DexMethod::set_virtual
DexMethod_set_virtual(this, is_virtual) ==
  IF assert(~this.m_external) THEN Done([this EXCEPT !.m_virtual = is_virtual], NULL)
  ELSE Fatal(this)

\* DexMethod::set_external
DexMethod_set_external(this) ==
  IF always_assert(~this.m_concrete) THEN Done([this EXCEPT !.m_external = TRUE], NULL)
  ELSE Fatal(this)

\* DexMethod::set_code
DexMethod_set_code(this, code) == Done([this EXCEPT !.m_code = code], NULL)

\* DexMethod::make_concrete(access, dc, is_virtual): declared in DexClass.h,
\* defined outside it
DexMethod_make_concrete(this, access, dc, is_virtual) ==
  IF this.m_external THEN Fatal(this)
  ELSE Done([this EXCEPT !.m_access = access, !.m_code = dc, !.m_virtual = is_virtual,
                         !.m_concrete = TRUE], NULL)

\* a clear_annotations that leaves a bare reference
DexMethod_clear_annotations_bare(this) ==
  Done([this EXCEPT !.m_anno = NULL, !.m_concrete = FALSE, !.m_external = FALSE], NULL)

\* DexMethod::clear_annotations
DexMethod_clear_annotations(this) == Done([this EXCEPT !.m_anno = NULL], NULL)

\* DexMethod::attach_annotation_set
DexMethod_attach_annotation_set(this, aset) ==
  IF this.m_anno = NULL /\ this.m_concrete = FALSE
  THEN Done([this EXCEPT !.m_anno = aset, !.n_attached = @ + 1], NULL)
  ELSE Fatal(this)

\* m_param_anno.count(paramno)
ParamAnnoCount(this, paramno) == IF paramno \in DOMAIN this.m_param_anno THEN 1 ELSE 0

\* DexMethod::attach_param_annotation_set
DexMethod_attach_param_annotation_set(this, paramno, aset) ==
  IF ParamAnnoCount(this, paramno) = 0 /\ this.m_concrete = FALSE
  THEN Done([this EXCEPT !.m_param_anno = Put(@, paramno, aset)], NULL)
  ELSE Fatal(this)

(***************************************************************************)
(* Calls on a member.  A call that ends on the fatal path changes nothing. *)
(***************************************************************************)
FieldCallOn(f, r) ==
  /\ fields' = [fields EXCEPT ![f] = r.obj]
  /\ UNCHANGED << strings, types, typelists, protos, methods, tables, classes, ndebug, quota, ret >>

MethodCallOn(m, r) ==
  /\ methods' = [methods EXCEPT ![m] = r.obj]
  /\ UNCHANGED << strings, types, typelists, protos, fields, tables, classes, ndebug, quota, ret >>

FieldGetAccess(f) ==
  LET r == DexField_get_access(fields[f]) IN
  /\ ret' = IF r.fatal THEN ret ELSE Ret("DexField::get_access", r.val)
  /\ UNCHANGED << heaps, tables, classes, ndebug, quota >>

FieldSetAccess(f, access) == FieldCallOn(f, DexField_set_access(fields[f], access))

FieldSetExternal(f) == FieldCallOn(f, DexField_set_external(fields[f]))

FieldMakeConcrete(f, access) == FieldCallOn(f, DexField_make_concrete(fields[f], access))

FieldClearAnnotations(f) == FieldCallOn(f, DexField_clear_annotations(fields[f]))

FieldAttachAnnotationSet(f, aset) ==
  LET r == DexField_attach_annotation_set(fields[f], aset) IN
  /\ IF r.fatal THEN TRUE ELSE fields[f].n_attached < MaxAttach
  /\ FieldCallOn(f, r)

MethodGetAccess(m) ==
  LET r == DexMethod_get_access(methods[m]) IN
  /\ ret' = IF r.fatal THEN ret ELSE Ret("DexMethod::get_access", r.val)
  /\ UNCHANGED << heaps, tables, classes, ndebug, quota >>

MethodSetAccess(m, access) == MethodCallOn(m, DexMethod_set_access(methods[m], access))

MethodSetVirtual(m, is_virtual) == MethodCallOn(m, DexMethod_set_virtual(methods[m], is_virtual))

MethodSetExternal(m) == MethodCallOn(m, DexMethod_set_external(methods[m]))

MethodSetCode(m, code) == MethodCallOn(m, DexMethod_set_code(methods[m], code))

MethodMakeConcrete(m, access, dc, is_virtual) ==
  MethodCallOn(m, DexMethod_make_concrete(methods[m], access, dc, is_virtual))

MethodClearAnnotations(m) == MethodCallOn(m, DexMethod_clear_annotations(methods[m]))

MethodAttachAnnotationSet(m, aset) ==
  LET r == DexMethod_attach_annotation_set(methods[m], aset) IN
  /\ IF r.fatal THEN TRUE ELSE methods[m].n_attached < MaxAttach
  /\ MethodCallOn(m, r)

MethodAttachParamAnnotationSet(m, paramno, aset) ==
  MethodCallOn(m, DexMethod_attach_param_annotation_set(methods[m], paramno, aset))

(***************************************************************************)
(* Runs of the member operations start after a dex file was loaded and one *)
(* member reference, a field or a method, was made.                        *)
(***************************************************************************)
LoadedS1 == LoadedT2.heap[LoadedT1.val].m_name
LoadedF == DexField_make_field(<< >>, << >>, LoadedT1.val, LoadedS1, LoadedT2.val)
LoadedM == DexMethod_make_method(<< >>, << >>, LoadedT1.val, LoadedS1, LoadedP1.val)

InitLoaded ==
  /\ strings = LoadedT2.sheap
  /\ s_string_map = LoadedT2.smap
  /\ types = LoadedT2.heap
  /\ s_type_map = LoadedT2.map
  /\ typelists = LoadedL.heap
  /\ s_typelist_map = LoadedL.map
  /\ protos = LoadedP2.heap
  /\ s_proto_map = LoadedP2.map
  /\ ndebug \in BOOLEAN
  /\ quota = 0
  /\ ret = Ret("none", NULL)

InitMember ==
  /\ InitLoaded
  /\ classes = << >>
  /\ \/ /\ fields = LoadedF.heap
        /\ s_field_map = LoadedF.map
        /\ methods = << >>
        /\ s_method_map = << >>
     \/ /\ fields = << >>
        /\ s_field_map = << >>
        /\ methods = LoadedM.heap
        /\ s_method_map = LoadedM.map

NextMember ==
  \/ \E f \in FieldPtrs : FieldGetAccess(f) \/ FieldSetExternal(f) \/ FieldClearAnnotations(f)
  \/ \E f \in FieldPtrs, access \in AccessFlags : FieldSetAccess(f, access) \/ FieldMakeConcrete(f, access)
  \/ \E f \in FieldPtrs, aset \in AnnoSets : FieldAttachAnnotationSet(f, aset)
  \/ \E m \in MethodPtrs : MethodGetAccess(m) \/ MethodSetExternal(m) \/ MethodClearAnnotations(m)
  \/ \E m \in MethodPtrs, access \in AccessFlags : MethodSetAccess(m, access)
  \/ \E m \in MethodPtrs, is_virtual \in BOOLEAN : MethodSetVirtual(m, is_virtual)
  \/ \E m \in MethodPtrs, code \in Codes : MethodSetCode(m, code)
  \/ \E m \in MethodPtrs, access \in AccessFlags, dc \in Codes, is_virtual \in BOOLEAN :
       MethodMakeConcrete(m, access, dc, is_virtual)
  \/ \E m \in MethodPtrs, aset \in AnnoSets : MethodAttachAnnotationSet(m, aset)
  \/ \E m \in MethodPtrs, paramno \in ParamNos, aset \in AnnoSets :
       MethodAttachParamAnnotationSet(m, paramno, aset)
  \/ \E m \in MethodPtrs, cls \in TypePtrs : ChangeClass(m, cls)
  \/ \E m \in MethodPtrs, p \in ProtoPtrs : ChangeProto(m, p)

SpecMember == InitMember /\ [][NextMember]_vars

(***************************************************************************)
(* Classes.  A DexClass is not interned.  Its constructors are defined     *)
(* outside DexClass.h: a class comes from a dex file, defined or external. *)
(***************************************************************************)
DexClass_new(self, super_class, interfaces, anno, external) ==
  [m_access_flags |-> 0, m_super_class |-> super_class, m_self |-> self,
   m_interfaces |-> interfaces, m_source_file |-> NULL, m_anno |-> anno,
   m_sfields |-> << >>, m_ifields |-> << >>, m_dmethods |-> << >>, m_vmethods |-> << >>,
   m_has_class_data |-> FALSE, m_external |-> external]

\* DexClass::get_dmethods() const
DexClass_get_dmethods_const(this) == Done(this, this.m_dmethods)

\* DexClass::get_dmethods()
DexClass_get_dmethods(this) ==
  IF assert(~this.m_external) THEN Done(this, this.m_dmethods) ELSE Fatal(this)

\* DexClass::get_vmethods() const
DexClass_get_vmethods_const(this) == Done(this, this.m_vmethods)

\* DexClass::get_vmethods()
DexClass_get_vmethods(this) ==
  IF assert(~this.m_external) THEN Done(this, this.m_vmethods) ELSE Fatal(this)

\* DexClass::get_sfields() const
DexClass_get_sfields_const(this) == Done(this, this.m_sfields)

\* DexClass::get_sfields()
DexClass_get_sfields(this) ==
  IF assert(~this.m_external) THEN Done(this, this.m_sfields) ELSE Fatal(this)

\* DexClass::get_ifields() const
DexClass_get_ifields_const(this) == Done(this, this.m_ifields)

\* DexClass::get_ifields()
DexClass_get_ifields(this) ==
  IF assert(~this.m_external) THEN Done(this, this.m_ifields) ELSE Fatal(this)

\* DexClass::is_external
DexClass_is_external(this) == this.m_external

\* DexClass::set_access
DexClass_set_access(this, access) ==
  IF assert(~this.m_external) THEN Done([this EXCEPT !.m_access_flags = access], NULL)
  ELSE Fatal(this)

\* DexClass::set_source_file
DexClass_set_source_file(this, source_file) ==
  Done([this EXCEPT !.m_source_file = source_file], NULL)

\* DexClass::set_interfaces
DexClass_set_interfaces(this, intfs) ==
  IF assert(~this.m_external) THEN Done([this EXCEPT !.m_interfaces = intfs], NULL)
  ELSE Fatal(this)

\* DexClass::clear_annotations
DexClass_clear_annotations(this) == Done([this EXCEPT !.m_anno = NULL], NULL)

(***************************************************************************)
(* Calls on a class.  A caller that was given a mutable member list pushes *)
(* a member onto it; a caller of a const getter only reads the list.       *)
(***************************************************************************)
ClassPtrs == 1..Len(classes)

ClassCallOn(c, obj) ==
  /\ classes' = [classes EXCEPT ![c] = obj]
  /\ UNCHANGED << heaps, tables, ndebug, quota, ret >>

ClassView(op, r) ==
  /\ ret' = Ret(op, r.val)
  /\ UNCHANGED << heaps, tables, classes, ndebug, quota >>

ViewDmethods(c) == ClassView("DexClass::get_dmethods const", DexClass_get_dmethods_const(classes[c]))

ViewVmethods(c) == ClassView("DexClass::get_vmethods const", DexClass_get_vmethods_const(classes[c]))

ViewSfields(c) == ClassView("DexClass::get_sfields const", DexClass_get_sfields_const(classes[c]))

ViewIfields(c) == ClassView("DexClass::get_ifields const", DexClass_get_ifields_const(classes[c]))

PushDmethod(c, m) ==
  LET r == DexClass_get_dmethods(classes[c]) IN
  /\ IF r.fatal THEN TRUE ELSE Len(r.val) < MaxMembers
  /\ ClassCallOn(c, IF r.fatal THEN r.obj ELSE [r.obj EXCEPT !.m_dmethods = Append(r.val, m)])

PushVmethod(c, m) ==
  LET r == DexClass_get_vmethods(classes[c]) IN
  /\ IF r.fatal THEN TRUE ELSE Len(r.val) < MaxMembers
  /\ ClassCallOn(c, IF r.fatal THEN r.obj ELSE [r.obj EXCEPT !.m_vmethods = Append(r.val, m)])

PushSfield(c, f) ==
  LET r == DexClass_get_sfields(classes[c]) IN
  /\ IF r.fatal THEN TRUE ELSE Len(r.val) < MaxMembers
  /\ ClassCallOn(c, IF r.fatal THEN r.obj ELSE [r.obj EXCEPT !.m_sfields = Append(r.val, f)])

PushIfield(c, f) ==
  LET r == DexClass_get_ifields(classes[c]) IN
  /\ IF r.fatal THEN TRUE ELSE Len(r.val) < MaxMembers
  /\ ClassCallOn(c, IF r.fatal THEN r.obj ELSE [r.obj EXCEPT !.m_ifields = Append(r.val, f)])

ClassSetAccess(c, access) == ClassCallOn(c, DexClass_set_access(classes[c], access).obj)

ClassSetSourceFile(c, source_file) ==
  ClassCallOn(c, DexClass_set_source_file(classes[c], source_file).obj)

ClassSetInterfaces(c, intfs) == ClassCallOn(c, DexClass_set_interfaces(classes[c], intfs).obj)

ClassClearAnnotations(c) == ClassCallOn(c, DexClass_clear_annotations(classes[c]).obj)

(***************************************************************************)
(* Runs of the class operations start after a dex file was loaded that     *)
(* refers to one field and one method and holds one class.                 *)
(***************************************************************************)
InitClass ==
  /\ InitLoaded
  /\ fields = LoadedF.heap
  /\ s_field_map = LoadedF.map
  /\ methods = LoadedM.heap
  /\ s_method_map = LoadedM.map
  /\ \E anno \in { NULL } \cup AnnoSets, external \in BOOLEAN :
       classes = << DexClass_new(LoadedT1.val, LoadedT2.val, LoadedL.val, anno, external) >>

NextClass ==
  \/ \E c \in ClassPtrs : ViewDmethods(c) \/ ViewVmethods(c) \/ ViewSfields(c) \/ ViewIfields(c)
  \/ \E c \in ClassPtrs, m \in MethodPtrs : PushDmethod(c, m) \/ PushVmethod(c, m)
  \/ \E c \in ClassPtrs, f \in FieldPtrs : PushSfield(c, f) \/ PushIfield(c, f)
  \/ \E c \in ClassPtrs, access \in AccessFlags : ClassSetAccess(c, access)
  \/ \E c \in ClassPtrs, source_file \in { NULL } \cup StringPtrs : ClassSetSourceFile(c, source_file)
  \/ \E c \in ClassPtrs, intfs \in { NULL } \cup TypeListPtrs : ClassSetInterfaces(c, intfs)
  \/ \E c \in ClassPtrs : ClassClearAnnotations(c)

SpecClass == InitClass /\ [][NextClass]_vars

(***************************************************************************)
(* The DexSpec orderings.  A comparator takes the objects its arguments    *)
(* point to; a pointer held in an object is followed through the heap of   *)
(* its kind.                                                               *)
(***************************************************************************)
\* DexString::is_simple: m_strlen == m_utfsize
DexString_is_simple(this) == strlen(this.cstr) = this.utfsize

\* strcmp: negative, zero or positive as s1 is below, equal to or above s2,
\* byte by byte as unsigned char; the end of a string is the byte zero
RECURSIVE strcmp(_, _)
strcmp(s1, s2) ==
  IF s1 = << >> /\ s2 = << >> THEN 0
  ELSE IF s1 = << >> THEN -1
  ELSE IF s2 = << >> THEN 1
  ELSE IF Head(s1) # Head(s2) THEN (IF Head(s1) < Head(s2) THEN -1 ELSE 1)
  ELSE strcmp(Tail(s1), Tail(s2))

\* mutf8_next_code_point(s), defined outside DexClass.h: decodes the code point
\* at s and moves s past it; cp is the code point, rest what s then points at
mutf8_next_code_point(s) ==
  IF s[1] < 128 THEN [cp |-> s[1], rest |-> SubSeq(s, 2, Len(s))]
  ELSE IF s[1] < 224
  THEN [cp |-> (s[1] % 32) * 64 + (s[2] % 64), rest |-> SubSeq(s, 3, Len(s))]
  ELSE [cp |-> (s[1] % 16) * 4096 + (s[2] % 64) * 64 + (s[3] % 64),
        rest |-> SubSeq(s, 4, Len(s))]

\* the while (1) loop of compare_dexstrings
RECURSIVE compare_dexstrings_loop(_, _)
compare_dexstrings_loop(sa, sb) ==
  LET a == mutf8_next_code_point(sa)
      b == mutf8_next_code_point(sb) IN
  IF a.cp = b.cp
  THEN IF a.rest = << >> THEN TRUE
       ELSE IF b.rest = << >> THEN FALSE
       ELSE compare_dexstrings_loop(a.rest, b.rest)
  ELSE a.cp < b.cp

\* byte order whatever the strings hold
compare_dexstrings_bytes(a, b) == strcmp(a.cstr, b.cstr) < 0

\* compare_dexstrings
compare_dexstrings(a, b) ==
  IF DexString_is_simple(a) /\ DexString_is_simple(b) THEN strcmp(a.cstr, b.cstr) < 0
  ELSE IF strcmp(a.cstr, b.cstr) = 0 THEN FALSE
  ELSE IF strlen(a.cstr) = 0 THEN TRUE
  ELSE IF strlen(b.cstr) = 0 THEN FALSE
  ELSE compare_dexstrings_loop(a.cstr, b.cstr)

\* compare_dextypes
compare_dextypes(a, b) == compare_dexstrings(strings[a.m_name], strings[b.m_name])

\* the while (1) loop of operator<; ita and itb are what is left of the lists
RECURSIVE DexTypeList_less_loop(_, _)
DexTypeList_less_loop(ita, itb) ==
  IF itb = << >> THEN FALSE
  ELSE IF ita = << >> THEN TRUE
  ELSE IF Head(ita) # Head(itb) THEN compare_dextypes(types[Head(ita)], types[Head(itb)])
  ELSE DexTypeList_less_loop(Tail(ita), Tail(itb))

\* the loop with the two tests for the end of a list in the other order
RECURSIVE DexTypeList_less_loop_a_first(_, _)
DexTypeList_less_loop_a_first(ita, itb) ==
  IF ita = << >> THEN TRUE
  ELSE IF itb = << >> THEN FALSE
  ELSE IF Head(ita) # Head(itb) THEN compare_dextypes(types[Head(ita)], types[Head(itb)])
  ELSE DexTypeList_less_loop_a_first(Tail(ita), Tail(itb))

DexTypeList_less_a_first(a, b) == DexTypeList_less_loop_a_first(a.m_list, b.m_list)

\* operator<(DexTypeList&, DexTypeList&)
DexTypeList_less(a, b) == DexTypeList_less_loop(a.m_list, b.m_list)

\* compare_dextypelists
compare_dextypelists(a, b) == DexTypeList_less(a, b)

\* compare_dexprotos
compare_dexprotos(a, b) ==
  IF a.m_rtype # b.m_rtype THEN compare_dextypes(types[a.m_rtype], types[b.m_rtype])
  ELSE DexTypeList_less(typelists[a.m_args], typelists[b.m_args])

\* compare_dexfields
compare_dexfields(a, b) ==
  IF a.m_class # b.m_class THEN compare_dextypes(types[a.m_class], types[b.m_class])
  ELSE IF a.m_name # b.m_name THEN compare_dexstrings(strings[a.m_name], strings[b.m_name])
  ELSE compare_dextypes(types[a.m_type], types[b.m_type])

\* compare_dexmethods
compare_dexmethods(a, b) ==
  IF a.m_class # b.m_class THEN compare_dextypes(types[a.m_class], types[b.m_class])
  ELSE IF a.m_name # b.m_name THEN compare_dexstrings(strings[a.m_name], strings[b.m_name])
  ELSE compare_dexprotos(protos[a.m_proto], protos[b.m_proto])

(***************************************************************************)
(* Comparisons.  ret records the comparator applied and its result.        *)
(***************************************************************************)
Compared(op, val) ==
  /\ ret' = Ret(op, val)
  /\ UNCHANGED << heaps, tables, classes, ndebug, quota >>

CompareStrings(a, b) == Compared("compare_dexstrings", compare_dexstrings(strings[a], strings[b]))

CompareTypes(a, b) == Compared("compare_dextypes", compare_dextypes(types[a], types[b]))

TypeListLess(a, b) == Compared("DexTypeList::operator<", DexTypeList_less(typelists[a], typelists[b]))

CompareTypeLists(a, b) ==
  Compared("compare_dextypelists", compare_dextypelists(typelists[a], typelists[b]))

CompareProtos(a, b) == Compared("compare_dexprotos", compare_dexprotos(protos[a], protos[b]))

CompareFields(a, b) == Compared("compare_dexfields", compare_dexfields(fields[a], fields[b]))

CompareMethods(a, b) == Compared("compare_dexmethods", compare_dexmethods(methods[a], methods[b]))

(***************************************************************************)
(* Comparisons are made on a registry into which a dex file was loaded: at *)
(* most NumCmpStrings texts, each interned with its length in code units   *)
(* or by the overload that takes the text alone, a type of each name, the  *)
(* type lists of these types, and prototypes, fields and methods over them.*)
(***************************************************************************)
\* UTF-16 code units: U+0000, 'a', U+20AC
CodePoints == { 0, 97, 8364 }

CpSeqs == UNION { [1..n -> CodePoints] : n \in 0..MaxStrLen }

\* cstr_only: the text is interned by make_string(const char*)
CmpInputs == { [text |-> Text(cps), cstr_only |-> b] : cps \in CpSeqs, b \in BOOLEAN }

\* the sets of at most k elements of S
RECURSIVE AtMost(_, _)
AtMost(S, k) ==
  IF k = 0 THEN { {} } ELSE UNION { { T \cup { x } : T \in AtMost(S, k - 1) } : x \in S }

RECURSIVE LoadStrings(_, _, _)
LoadStrings(S, h, m) ==
  IF S = {} THEN Ctx(h, m, NULL)
  ELSE LET x == CHOOSE x \in S : TRUE
           r == IF x.cstr_only THEN DexString_make_string_cstr(h, m, x.text.nstr)
                ELSE DexString_make_string(h, m, x.text.nstr, x.text.utfsize) IN
       LoadStrings(S \ { x }, r.heap, r.map)

RECURSIVE LoadTypes(_, _, _)
LoadTypes(S, h, m) ==
  IF S = {} THEN Ctx(h, m, NULL)
  ELSE LET x == CHOOSE x \in S : TRUE
           r == DexType_make_type(h, m, x) IN
       LoadTypes(S \ { x }, r.heap, r.map)

RECURSIVE LoadTypeLists(_, _, _)
LoadTypeLists(S, h, m) ==
  IF S = {} THEN Ctx(h, m, NULL)
  ELSE LET x == CHOOSE x \in S : TRUE
           r == DexTypeList_make_type_list(h, m, x) IN
       LoadTypeLists(S \ { x }, r.heap, r.map)

RECURSIVE LoadProtos(_, _, _)
LoadProtos(S, h, m) ==
  IF S = {} THEN Ctx(h, m, NULL)
  ELSE LET x == CHOOSE x \in S : TRUE
           r == DexProto_make_proto(h, m, x[1], x[2]) IN
       LoadProtos(S \ { x }, r.heap, r.map)

RECURSIVE LoadFields(_, _, _)
LoadFields(S, h, m) ==
  IF S = {} THEN Ctx(h, m, NULL)
  ELSE LET x == CHOOSE x \in S : TRUE
           r == DexField_make_field(h, m, x[1], x[2], x[3]) IN
       LoadFields(S \ { x }, r.heap, r.map)

RECURSIVE LoadMethods(_, _, _)
LoadMethods(S, h, m) ==
  IF S = {} THEN Ctx(h, m, NULL)
  ELSE LET x == CHOOSE x \in S : TRUE
           r == DexMethod_make_method(h, m, x[1], x[2], x[3]) IN
       LoadMethods(S \ { x }, r.heap, r.map)

\* the first NumCmpKeys pointers into heap h
Keys(h) == { i \in 1..Len(h) : i <= NumCmpKeys }

InitCmp ==
  \E S \in AtMost(CmpInputs, NumCmpStrings) :
    LET sr == LoadStrings(S, << >>, << >>)
        tr == LoadTypes(1..Len(sr.heap), << >>, << >>)
        lr == LoadTypeLists(UNION { [1..n -> Keys(tr.heap)] : n \in 0..MaxCmpListLen },
                            << >>, << >>)
        pr == LoadProtos(Keys(tr.heap) \X Keys(lr.heap), << >>, << >>)
        fr == LoadFields(Keys(tr.heap) \X Keys(sr.heap) \X Keys(tr.heap), << >>, << >>)
        mr == LoadMethods(Keys(tr.heap) \X Keys(sr.heap) \X Keys(pr.heap), << >>, << >>) IN
    /\ strings = sr.heap
    /\ s_string_map = sr.map
    /\ types = tr.heap
    /\ s_type_map = tr.map
    /\ typelists = lr.heap
    /\ s_typelist_map = lr.map
    /\ protos = pr.heap
    /\ s_proto_map = pr.map
    /\ fields = fr.heap
    /\ s_field_map = fr.map
    /\ methods = mr.heap
    /\ s_method_map = mr.map
    /\ classes = << >>
    /\ ndebug = FALSE
    /\ quota = 0
    /\ ret = Ret("none", NULL)

NextCmp ==
  \/ \E a \in StringPtrs, b \in StringPtrs : CompareStrings(a, b)
  \/ \E a \in TypePtrs, b \in TypePtrs : CompareTypes(a, b)
  \/ \E a \in TypeListPtrs, b \in TypeListPtrs : TypeListLess(a, b) \/ CompareTypeLists(a, b)
  \/ \E a \in ProtoPtrs, b \in ProtoPtrs : CompareProtos(a, b)
  \/ \E a \in FieldPtrs, b \in FieldPtrs : CompareFields(a, b)
  \/ \E a \in MethodPtrs, b \in MethodPtrs : CompareMethods(a, b)

SpecCmp == InitCmp /\ [][NextCmp]_vars

(***************************************************************************)
(* Comparisons of strings alone: the two operands of a comparison are     *)
(* interned (one string when both operands are the same text).             *)
(***************************************************************************)
InitCmpStrings ==
  \E x \in CmpInputs, y \in CmpInputs :
    LET sr == LoadStrings({x, y}, << >>, << >>) IN
    /\ strings = sr.heap
    /\ s_string_map = sr.map
    /\ types = << >>
    /\ s_type_map = << >>
    /\ typelists = << >>
    /\ s_typelist_map = << >>
    /\ protos = << >>
    /\ s_proto_map = << >>
    /\ fields = << >>
    /\ s_field_map = << >>
    /\ methods = << >>
    /\ s_method_map = << >>
    /\ classes = << >>
    /\ ndebug = FALSE
    /\ quota = 0
    /\ ret = Ret("none", NULL)

NextCmpStrings == \E a \in StringPtrs, b \in StringPtrs : CompareStrings(a, b)

SpecCmpStrings == InitCmpStrings /\ [][NextCmpStrings]_vars

(***************************************************************************)
(* Comparisons of type lists alone: the types named by each code point are *)
(* made and at most NumTypeLists lists of them are interned.               *)
(***************************************************************************)
LoadedNames ==
  LoadStrings({ [text |-> Text(<< cp >>), cstr_only |-> FALSE] : cp \in CodePoints }, << >>, << >>)

LoadedTypes == LoadTypes(1..Len(LoadedNames.heap), << >>, << >>)

InitCmpTypeLists ==
  \E S \in AtMost(UNION { [1..n -> 1..Len(LoadedTypes.heap)] : n \in 0..MaxCmpListLen },
                  NumTypeLists) :
    LET lr == LoadTypeLists(S, << >>, << >>) IN
    /\ strings = LoadedNames.heap
    /\ s_string_map = LoadedNames.map
    /\ types = LoadedTypes.heap
    /\ s_type_map = LoadedTypes.map
    /\ typelists = lr.heap
    /\ s_typelist_map = lr.map
    /\ protos = << >>
    /\ s_proto_map = << >>
    /\ fields = << >>
    /\ s_field_map = << >>
    /\ methods = << >>
    /\ s_method_map = << >>
    /\ classes = << >>
    /\ ndebug = FALSE
    /\ quota = 0
    /\ ret = Ret("none", NULL)

NextCmpTypeLists ==
  \E a \in TypeListPtrs, b \in TypeListPtrs : TypeListLess(a, b) \/ CompareTypeLists(a, b)

SpecCmpTypeLists == InitCmpTypeLists /\ [][NextCmpTypeLists]_vars

(***************************************************************************)
(* Properties of the registry.  A call's outcome is the value of its       *)
(* operator in the state the call is made in: X(...).val is the pointer    *)
(* returned, X(...).heap and X(...).map the heap and table it leaves.      *)
(***************************************************************************)
\* the objects of heap h whose identifying attributes, Key(object), are k
Holders(h, Key(_), k) == { i \in 1..Len(h) : Key(h[i]) = k }

StringKey(str) == str.cstr
TypeKey(type) == type.m_name
TypeText(type) == strings[type.m_name].cstr
TypeListKey(list) == list.m_list
ProtoKey(proto) == << proto.m_rtype, proto.m_args >>
FieldKey(field) == << field.m_class, field.m_name, field.m_type >>

\* make_X(k) returns the one object with attributes k, get_X(k) after it returns
\* the same object, and so does a second make_X(k)
Canonical(h, Key(_), k, made, got, again) ==
  /\ Holders(made.heap, Key, k) = {made.val}
  /\ Holders(h, Key, k) \subseteq {made.val}
  /\ got.val = made.val
  /\ again.val = made.val
  /\ again.heap = made.heap

KeysOf(m, obj) == { k \in DOMAIN m : m[k] = obj }

\* C2: a re-keying call (assign_name_alias to another name, change_class to
\* another class, change_proto to another prototype) leaves the entity the same
\* object, not found under its old key and found under its new key and no
\* other; the calls are single steps, so no state in between is observable.
C2_RekeyMovesTheKey ==
  /\ \A t \in TypePtrs, new_name \in StringPtrs :
       LET old == types[t].m_name
           r == DexType_assign_name_alias(types, s_type_map, t, new_name) IN
       new_name # old =>
         /\ r.val = t
         /\ Len(r.heap) = Len(types)
         /\ DexType_get_type(r.heap, r.map, old).val = NULL
         /\ DexType_get_type(r.heap, r.map, new_name).val = t
         /\ DexType_get_type_cstr(strings, s_string_map, r.heap, r.map, strings[old].cstr).val = NULL
         /\ DexType_get_type_cstr(strings, s_string_map, r.heap, r.map, strings[new_name].cstr).val = t
         /\ KeysOf(r.map, t) = {new_name}
  /\ \A meth \in MethodPtrs, cls \in TypePtrs :
       LET old == methods[meth]
           r == DexMethod_change_class(methods, s_method_map, meth, cls) IN
       cls # old.m_class =>
         /\ r.val = meth
         /\ Len(r.heap) = Len(methods)
         /\ DexMethod_get_method(r.heap, r.map, old.m_class, old.m_name, old.m_proto).val = NULL
         /\ DexMethod_get_method(r.heap, r.map, cls, old.m_name, old.m_proto).val = meth
         /\ KeysOf(r.map, meth) = {<< cls, old.m_name, old.m_proto >>}
  /\ \A meth \in MethodPtrs, proto \in ProtoPtrs :
       LET old == methods[meth]
           r == DexMethod_change_proto(methods, s_method_map, meth, proto) IN
       proto # old.m_proto =>
         /\ r.val = meth
         /\ Len(r.heap) = Len(methods)
         /\ DexMethod_get_method(r.heap, r.map, old.m_class, old.m_name, old.m_proto).val = NULL
         /\ DexMethod_get_method(r.heap, r.map, old.m_class, old.m_name, proto).val = meth
         /\ KeysOf(r.map, meth) = {<< old.m_class, old.m_name, proto >>}

\* the first type of the loaded file was aliased to the second one's name, and
\* a method was retargeted onto the key of another method
C2_Witness ==
  /\ types[LoadedT1.val].m_name = LoadedT2.heap[LoadedT2.val].m_name
  /\ Lookup(s_type_map, LoadedT1.heap[LoadedT1.val].m_name) = NULL
  /\ Lookup(s_type_map, types[LoadedT1.val].m_name) = LoadedT1.val
  /\ \E m1 \in MethodPtrs, m2 \in MethodPtrs :
       /\ m1 # m2
       /\ MethodKey(methods[m1]) = MethodKey(methods[m2])
       /\ Lookup(s_method_map, MethodKey(methods[m1])) = m1

\* C3: no two distinct DexType objects have the same descriptor name, whatever
\* make_type and assign_name_alias calls were made.
C3_DescriptorNamesUnique ==
  \A i \in TypePtrs, j \in TypePtrs : TypeText(types[i]) = TypeText(types[j]) => i = j

\* C4: get_X creates nothing: it leaves every heap and every table as they
\* are, answers nullptr for a key no object has, and so answers nullptr again
\* when repeated; the text overloads of get_type do not intern the text.
C4_GetNeverCreates ==
  /\ \A n \in NamePool :
       LET g == DexString_get_string(strings, s_string_map, n.nstr, n.utfsize)
           gc == DexString_get_string_cstr(strings, s_string_map, n.nstr)
           tg == DexType_get_type_cstr(strings, s_string_map, types, s_type_map, n.nstr)
           tgl == DexType_get_type_cstr_len(strings, s_string_map, types, s_type_map, n.nstr, n.utfsize) IN
       /\ g.heap = strings /\ g.map = s_string_map
       /\ gc.heap = strings /\ gc.map = s_string_map
       /\ Holders(strings, StringKey, n.nstr) = {} => g.val = NULL /\ gc.val = NULL
       /\ tg.sheap = strings /\ tg.smap = s_string_map /\ tg.heap = types /\ tg.map = s_type_map
       /\ tgl.sheap = strings /\ tgl.smap = s_string_map /\ tgl.heap = types /\ tgl.map = s_type_map
       /\ Holders(types, TypeText, n.nstr) = {} => tg.val = NULL /\ tgl.val = NULL
  /\ \A s \in StringPtrs \cup {NULL} :
       LET g == DexType_get_type(types, s_type_map, s) IN
       /\ g.heap = types /\ g.map = s_type_map
       /\ Holders(types, TypeKey, s) = {} => g.val = NULL
  /\ \A p \in TypeSeqs :
       LET g == DexTypeList_get_type_list(typelists, s_typelist_map, p) IN
       /\ g.heap = typelists /\ g.map = s_typelist_map
       /\ Holders(typelists, TypeListKey, p) = {} => g.val = NULL
  /\ \A rtype \in TypePtrs, args \in TypeListPtrs :
       LET g == DexProto_get_proto(protos, s_proto_map, rtype, args) IN
       /\ g.heap = protos /\ g.map = s_proto_map
       /\ Holders(protos, ProtoKey, << rtype, args >>) = {} => g.val = NULL
  /\ \A c \in TypePtrs, n \in StringPtrs, t \in TypePtrs :
       LET g == DexField_get_field(fields, s_field_map, c, n, t) IN
       /\ g.heap = fields /\ g.map = s_field_map
       /\ Holders(fields, FieldKey, << c, n, t >>) = {} => g.val = NULL
  /\ \A c \in TypePtrs, n \in StringPtrs, p \in ProtoPtrs :
       LET g == DexMethod_get_method(methods, s_method_map, c, n, p) IN
       /\ g.heap = methods /\ g.map = s_method_map
       /\ Holders(methods, MethodKey, << c, n, p >>) = {} => g.val = NULL

\* one name was made a type and the other name was never made: get_type by
\* that text answers nullptr and the string table still lacks the text
C4_Witness ==
  /\ Len(types) = 1
  /\ Len(methods) = 1
  /\ \E n \in NamePool :
       /\ n.nstr \notin DOMAIN s_string_map
       /\ DexType_get_type_cstr(strings, s_string_map, types, s_type_map, n.nstr).val = NULL
       /\ DexType_get_type_cstr(strings, s_string_map, types, s_type_map, n.nstr).smap = s_string_map

(***************************************************************************)
(* Properties of members and classes.  A call's outcome is the value of    *)
(* its operator on the object as it is in the state the call is made in.   *)
(***************************************************************************)
\* the call with outcome r took the fatal path and left the object as it was
Rejected(r, this) == r.fatal /\ r.obj = this
\* the call with outcome r returned val and left the object as it was
Returned(r, this, val) == ~r.fatal /\ r.obj = this /\ r.val = val

C6_AttachSucceedsIffEmptyAndNotConcrete ==
  /\ \A f \in FieldPtrs, aset \in AnnoSets :
       LET this == fields[f]
           r == DexField_attach_annotation_set(this, aset) IN
       /\ IF this.m_anno = NULL /\ ~this.m_concrete
          THEN r = Done([this EXCEPT !.m_anno = aset, !.n_attached = this.n_attached + 1], NULL)
          ELSE r = Fatal(this)
       /\ this.m_anno # NULL => this.n_attached >= 1
  /\ \A m \in MethodPtrs, aset \in AnnoSets :
       LET this == methods[m]
           r == DexMethod_attach_annotation_set(this, aset) IN
       /\ IF this.m_anno = NULL /\ ~this.m_concrete
          THEN r = Done([this EXCEPT !.m_anno = aset, !.n_attached = this.n_attached + 1], NULL)
          ELSE r = Fatal(this)
       /\ this.m_anno # NULL => this.n_attached >= 1

\* a field that was given an annotation set twice and then made concrete
C6_Witness ==
  \E f \in FieldPtrs :
    /\ fields[f].n_attached = 2
    /\ fields[f].m_concrete
    /\ fields[f].m_anno # NULL

\* C6 as the specification states it: over its lifetime a member is given an
\* annotation set at most once, and never once it is concrete.
C6_AttachedAtMostOnce ==
  /\ \A f \in FieldPtrs :
       /\ fields[f].n_attached <= 1
       /\ (fields[f].m_concrete \/ fields[f].n_attached >= 1)
            => \A aset \in AnnoSets : DexField_attach_annotation_set(fields[f], aset).fatal
  /\ \A m \in MethodPtrs :
       /\ methods[m].n_attached <= 1
       /\ (methods[m].m_concrete \/ methods[m].n_attached >= 1)
            => \A aset \in AnnoSets : DexMethod_attach_annotation_set(methods[m], aset).fatal

\* C7: for an external class the four mutable list getters, set_access and
\* set_interfaces take the fatal path and leave the class as it was, the const
\* getters return the lists, and no operation of a class makes a defined class
\* external.
C7_ExternalClassRejectsMutation ==
  \A c \in ClassPtrs :
    LET this == classes[c] IN
    /\ this.m_external =>
         /\ Rejected(DexClass_get_sfields(this), this)
         /\ Rejected(DexClass_get_ifields(this), this)
         /\ Rejected(DexClass_get_dmethods(this), this)
         /\ Rejected(DexClass_get_vmethods(this), this)
         /\ \A access \in AccessFlags : Rejected(DexClass_set_access(this, access), this)
         /\ \A intfs \in { NULL } \cup TypeListPtrs : Rejected(DexClass_set_interfaces(this, intfs), this)
         /\ Returned(DexClass_get_sfields_const(this), this, this.m_sfields)
         /\ Returned(DexClass_get_ifields_const(this), this, this.m_ifields)
         /\ Returned(DexClass_get_dmethods_const(this), this, this.m_dmethods)
         /\ Returned(DexClass_get_vmethods_const(this), this, this.m_vmethods)
    /\ ~this.m_external =>
         /\ ~DexClass_is_external(DexClass_get_sfields(this).obj)
         /\ ~DexClass_is_external(DexClass_get_ifields(this).obj)
         /\ ~DexClass_is_external(DexClass_get_dmethods(this).obj)
         /\ ~DexClass_is_external(DexClass_get_vmethods(this).obj)
         /\ \A access \in AccessFlags : ~DexClass_is_external(DexClass_set_access(this, access).obj)
         /\ \A intfs \in { NULL } \cup TypeListPtrs :
              ~DexClass_is_external(DexClass_set_interfaces(this, intfs).obj)
         /\ \A source_file \in { NULL } \cup StringPtrs :
              ~DexClass_is_external(DexClass_set_source_file(this, source_file).obj)
         /\ ~DexClass_is_external(DexClass_clear_annotations(this).obj)

(***************************************************************************)
(* Properties of the orderings.                                            *)
(***************************************************************************)
\* Less is a strict weak order on S
StrictWeakOrder(S, Less(_, _)) ==
  /\ \A a \in S : ~Less(a, a)
  /\ \A a, b \in S : Less(a, b) => ~Less(b, a)
  /\ \A a, b, c \in S : Less(a, b) /\ Less(b, c) => Less(a, c)
  /\ \A a, b, c \in S :
       (~Less(a, b) /\ ~Less(b, a) /\ ~Less(b, c) /\ ~Less(c, b))
         => (~Less(a, c) /\ ~Less(c, a))

\* C8: each of the six comparators is a strict weak order on the interned
\* objects of its kind, whatever mix of simple and non-simple strings the
\* registry holds.
C8_ComparatorsAreStrictWeakOrders ==
  /\ StrictWeakOrder(StringPtrs, LAMBDA a, b : compare_dexstrings(strings[a], strings[b]))
  /\ StrictWeakOrder(TypePtrs, LAMBDA a, b : compare_dextypes(types[a], types[b]))
  /\ StrictWeakOrder(TypeListPtrs, LAMBDA a, b : DexTypeList_less(typelists[a], typelists[b]))
  /\ StrictWeakOrder(ProtoPtrs, LAMBDA a, b : compare_dexprotos(protos[a], protos[b]))
  /\ StrictWeakOrder(FieldPtrs, LAMBDA a, b : compare_dexfields(fields[a], fields[b]))
  /\ StrictWeakOrder(MethodPtrs, LAMBDA a, b : compare_dexmethods(methods[a], methods[b]))

\* x is below y in the lexicographic order of sequences of numbers: at the
\* first place where they differ x holds the smaller number, or x ends there
LexLess(x, y) ==
  \E i \in 1..Len(y) :
    /\ \A j \in 1..(i - 1) : j <= Len(x) /\ x[j] = y[j]
    /\ i = Len(x) + 1 \/ (i <= Len(x) /\ x[i] < y[i])

\* the bytes of each text
EncodingOf == [cps \in CpSeqs |-> Encode(cps)]

\* the code points a text encodes
Decode(bytes) == CHOOSE cps \in CpSeqs : EncodingOf[cps] = bytes

\* the reference order of strings
ReferenceLess(a, b) ==
  IF strlen(a.cstr) = a.utfsize /\ strlen(b.cstr) = b.utfsize
  THEN LexLess(a.cstr, b.cstr)
  ELSE LexLess(Decode(a.cstr), Decode(b.cstr))

\* C9: compare_dexstrings is the reference order: the order of the raw bytes
\* when both strings are simple, otherwise the lexicographic order of the code
\* point sequences, in which a strict prefix is the smaller and identical strings
\* tie; compare("","") is a tie, "" < "a" and "abc" < "abd".
C9_CompareIsReferenceOrder ==
  /\ \A a, b \in StringPtrs :
       compare_dexstrings(strings[a], strings[b]) = ReferenceLess(strings[a], strings[b])
  /\ \A a \in StringPtrs : ~compare_dexstrings(strings[a], strings[a])
  /\ ~compare_dexstrings(DexString_new(<< >>, 0), DexString_new(<< >>, 0))
  /\ compare_dexstrings(DexString_new(<< >>, 0), DexString_new(<< 97 >>, 1))
  /\ ~compare_dexstrings(DexString_new(<< 97 >>, 1), DexString_new(<< >>, 0))
  /\ compare_dexstrings(DexString_new(<< 97, 98, 99 >>, 3), DexString_new(<< 97, 98, 100 >>, 3))
  /\ ~compare_dexstrings(DexString_new(<< 97, 98, 100 >>, 3), DexString_new(<< 97, 98, 99 >>, 3))

\* a non-simple string was compared with a simple one and found the smaller by
\* its code points although its bytes are the larger
C9_Witness ==
  \E a, b \in StringPtrs :
    /\ ~DexString_is_simple(strings[a])
    /\ DexString_is_simple(strings[b])
    /\ strcmp(strings[a].cstr, strings[b].cstr) > 0
    /\ compare_dexstrings(strings[a], strings[b])
    /\ ret.op = "compare_dexstrings" /\ ret.val

\* the first place at which lists x and y hold different types, 0 when there
\* is none in the part they share
FirstDifference(x, y) ==
  LET D == { i \in 1..Len(x) : i <= Len(y) /\ x[i] # y[i] } IN
  IF D = {} THEN 0 ELSE CHOOSE i \in D : \A j \in D : i <= j

\* C10: operator< of DexTypeList is lexicographic by compare_dextypes: the
\* first place where the lists hold different types decides, a strict prefix is
\* the smaller, and lists that are equal element by element tie.
C10_TypeListLessIsLexicographic ==
  \A a, b \in TypeListPtrs :
    LET x == typelists[a].m_list
        y == typelists[b].m_list
        d == FirstDifference(x, y) IN
    /\ DexTypeList_less(typelists[a], typelists[b])
         = IF d # 0 THEN compare_dextypes(types[x[d]], types[y[d]]) ELSE Len(x) < Len(y)
    /\ compare_dextypelists(typelists[a], typelists[b])
         = DexTypeList_less(typelists[a], typelists[b])
    /\ x = y => ~DexTypeList_less(typelists[a], typelists[b])
    /\ (x = << >> /\ y # << >>) => DexTypeList_less(typelists[a], typelists[b])

\* the lists [A] and [A, B] were compared and [A] found the smaller
C10_Witness ==
  \E a, b \in TypeListPtrs :
    LET x == typelists[a].m_list
        y == typelists[b].m_list IN
    /\ Len(x) = 1 /\ Len(y) = 2 /\ x[1] = y[1] /\ y[2] # y[1]
    /\ DexTypeList_less(typelists[a], typelists[b])
    /\ ~DexTypeList_less(typelists[b], typelists[a])
    /\ ret.op = "DexTypeList::operator<" /\ ret.val

(***************************************************************************)
(* Sorting.  std::sort and std::list::sort with a comparator leave a range *)
(* in an arrangement in which no element is below an earlier one, provided *)
(* the comparator is a strict weak order on the elements; with any other   *)
(* comparator the behaviour is undefined and the range may be left in any  *)
(* arrangement.  The methods of one class are distinct interned objects.   *)
(***************************************************************************)
\* the lists that hold each element of S once
Arrangements(S) ==
  { p \in [1..Cardinality(S) -> S] : \A i, j \in 1..Cardinality(S) : i # j => p[i] # p[j] }

Range(list) == { list[i] : i \in 1..Len(list) }

\* no element of the list is below an earlier one
Ordered(list, Less(_, _)) == \A i, j \in 1..Len(list) : i < j => ~Less(list[j], list[i])

\* compare_dexmethods on pointers to methods
MethodLess(a, b) == compare_dexmethods(methods[a], methods[b])

\* the arrangements sort(list.begin(), list.end(), compare_dexmethods) may leave
sort(list) ==
  IF StrictWeakOrder(Range(list), MethodLess)
  THEN { p \in Arrangements(Range(list)) : Ordered(p, MethodLess) }
  ELSE Arrangements(Range(list))

\* the lists of at most MaxSortLen distinct methods
MethodLists == UNION { Arrangements(S) : S \in AtMost(MethodPtrs, MaxSortLen) }

SortMethods(list) == \E p \in sort(list) : Compared("sort", p)

(***************************************************************************)
(* Sorting is done on a registry that holds at most NumCmpStrings texts, a *)
(* type of each, the prototype of no arguments that returns the first      *)
(* type, the methods of the first type named by each text and the methods  *)
(* of the first NumCmpKeys types named by the first text.                  *)
(***************************************************************************)
\* the texts of U+0000 and 'a', each interned with its length in code units
\* or by the overload that takes the text alone
SortInputs ==
  { x \in CmpInputs : \A i \in 1..Len(x.text.nstr) : x.text.nstr[i] \in { 97, 192, 128 } }

InitSort ==
  \E S \in AtMost(SortInputs, NumCmpStrings) :
    LET sr == LoadStrings(S, << >>, << >>)
        tr == LoadTypes(1..Len(sr.heap), << >>, << >>)
        lr == LoadTypeLists({ << >> }, << >>, << >>)
        pr == LoadProtos({ t \in Keys(tr.heap) : t = 1 } \X Keys(lr.heap), << >>, << >>)
        mr == LoadMethods({ k \in Keys(tr.heap) \X (1..Len(sr.heap)) \X Keys(pr.heap) :
                              k[1] = 1 \/ k[2] = 1 }, << >>, << >>) IN
    /\ strings = sr.heap
    /\ s_string_map = sr.map
    /\ types = tr.heap
    /\ s_type_map = tr.map
    /\ typelists = lr.heap
    /\ s_typelist_map = lr.map
    /\ protos = pr.heap
    /\ s_proto_map = pr.map
    /\ fields = << >>
    /\ s_field_map = << >>
    /\ methods = mr.heap
    /\ s_method_map = mr.map
    /\ classes = << >>
    /\ ndebug = FALSE
    /\ quota = 0
    /\ ret = Ret("none", NULL)

NextSort == \E list \in MethodLists : SortMethods(list)

SpecSort == InitSort /\ [][NextSort]_vars

\* a is below b by (declaring type, name, prototype), where the prototype
\* order is by return type and then by argument list
MethodKeyLess(a, b) ==
  LET ma == methods[a]
      mb == methods[b]
      pa == protos[ma.m_proto]
      pb == protos[mb.m_proto] IN
  IF ma.m_class # mb.m_class THEN compare_dextypes(types[ma.m_class], types[mb.m_class])
  ELSE IF ma.m_name # mb.m_name
  THEN compare_dexstrings(strings[ma.m_name], strings[mb.m_name])
  ELSE IF pa.m_rtype # pb.m_rtype THEN compare_dextypes(types[pa.m_rtype], types[pb.m_rtype])
  ELSE DexTypeList_less(typelists[pa.m_args], typelists[pb.m_args])

\* C11: sorting a list of interned methods with compare_dexmethods leaves the
\* same sequence whatever order the methods were inserted in, and in that
\* sequence every method is below each later one by (declaring type, name,
\* prototype), the prototype order being by return type and then by argument
\* list.
C11_SortIsInsertionOrderIndependent ==
  /\ \A list \in MethodLists :
       /\ Cardinality(sort(list)) = 1
       /\ \A other \in Arrangements(Range(list)) :
            sort(other) = sort(list)
       /\ \A p \in sort(list) :
            \A i, j \in 1..Len(p) : i < j => MethodKeyLess(p[i], p[j])
  /\ ret.op = "sort" =>
       \A i, j \in 1..Len(ret.val) : i < j => MethodKeyLess(ret.val[i], ret.val[j])

(***************************************************************************)
(* Encoding of a string.  The caller provides the memory output points at; *)
(* mem is that memory, its first byte at 1, and Unwritten marks a byte no   *)
(* write has reached.                                                       *)
(***************************************************************************)
Unwritten == -1

Output(n) == [i \in 1..n |-> Unwritten]

\* uleb128_encoding_size(v), defined outside DexClass.h: the bytes the
\* unsigned LEB128 form of v takes
RECURSIVE uleb128_encoding_size(_)
uleb128_encoding_size(v) == IF v \div 128 = 0 THEN 1 ELSE 1 + uleb128_encoding_size(v \div 128)

\* write_uleb128(output, val), defined outside DexClass.h: writes val seven
\* bits at a time, low bits first, each byte but the last with the top bit
\* set; at is where output points after the call
RECURSIVE write_uleb128(_, _, _)
write_uleb128(mem, at, val) ==
  IF val < 128 THEN [mem |-> [mem EXCEPT ![at] = val], at |-> at + 1]
  ELSE write_uleb128([mem EXCEPT ![at] = 128 + (val % 128)], at + 1, val \div 128)

\* strcpy(dst, src): the bytes of src and the zero that ends it
strcpy(mem, at, src) ==
  [i \in DOMAIN mem |->
     IF i >= at /\ i < at + Len(src) THEN src[i - at + 1]
     ELSE IF i = at + Len(src) THEN 0
     ELSE mem[i]]

\* get_entry_size without the byte of the terminator
DexString_get_entry_size_no_nul(this) ==
  uleb128_encoding_size(this.utfsize) + strlen(this.cstr)

\* DexString::get_entry_size
DexString_get_entry_size(this) ==
  uleb128_encoding_size(this.utfsize) + strlen(this.cstr) + 1

\* DexString::encode; the value is the memory after the call
DexString_encode(this, mem) ==
  LET w == write_uleb128(mem, 1, this.utfsize) IN
  strcpy(w.mem, w.at, this.cstr)

\* the memory a caller hands to encode: get_entry_size() bytes and, to show a
\* write past them, EncodeSlack more
EntryOutput(this) == Output(DexString_get_entry_size(this) + EncodeSlack)

GetEntrySize(s) == Compared("get_entry_size", DexString_get_entry_size(strings[s]))

EncodeString(s) ==
  Compared("encode", DexString_encode(strings[s], EntryOutput(strings[s])))

(***************************************************************************)
(* Strings are encoded on a registry that holds up to two texts: short     *)
(* texts over the three code points, "hello", or a text of LongLen code    *)
(* units, whose length takes two bytes.                                    *)
(***************************************************************************)
Hello == << 104, 101, 108, 108, 111 >>

EncodeInputs ==
  CmpInputs
    \cup { [text |-> Text(Hello), cstr_only |-> FALSE],
           [text |-> [nstr |-> [i \in 1..LongLen |-> 97], utfsize |-> LongLen],
            cstr_only |-> FALSE] }

InitEncode ==
  \E x \in EncodeInputs, y \in EncodeInputs :
    LET sr == LoadStrings({x, y}, << >>, << >>) IN
    /\ strings = sr.heap
    /\ s_string_map = sr.map
    /\ types = << >>
    /\ s_type_map = << >>
    /\ typelists = << >>
    /\ s_typelist_map = << >>
    /\ protos = << >>
    /\ s_proto_map = << >>
    /\ fields = << >>
    /\ s_field_map = << >>
    /\ methods = << >>
    /\ s_method_map = << >>
    /\ classes = << >>
    /\ ndebug = FALSE
    /\ quota = 0
    /\ ret = Ret("none", NULL)

NextEncode == \E s \in StringPtrs : GetEntrySize(s) \/ EncodeString(s)

SpecEncode == InitEncode /\ [][NextEncode]_vars

\* the number whose seven-bit groups, low group first, the bytes hold
RECURSIVE UlebValue(_)
UlebValue(bytes) ==
  IF bytes = << >> THEN 0 ELSE (Head(bytes) % 128) + 128 * UlebValue(Tail(bytes))

\* bytes is the unsigned LEB128 form of v: every byte but the last has the
\* top bit set, the last has not, and no group past the first is a needless zero
IsUleb128(bytes, v) ==
  /\ Len(bytes) >= 1
  /\ \A i \in 1..(Len(bytes) - 1) : bytes[i] >= 128 /\ bytes[i] <= 255
  /\ bytes[Len(bytes)] >= 0 /\ bytes[Len(bytes)] < 128
  /\ Len(bytes) > 1 => bytes[Len(bytes)] # 0
  /\ UlebValue(bytes) = v

\* encode on this writes exactly get_entry_size() bytes: the length prefix of
\* utfsize, the raw bytes and one zero
EncodesAsEntry(this) ==
  LET n == DexString_get_entry_size(this)
      out == DexString_encode(this, EntryOutput(this))
      k == n - strlen(this.cstr) - 1 IN
  /\ Len(out) = n + EncodeSlack
  /\ \A i \in 1..Len(out) : (out[i] # Unwritten) = (i <= n)
  /\ k >= 1
  /\ IsUleb128(SubSeq(out, 1, k), this.utfsize)
  /\ SubSeq(out, k + 1, n - 1) = this.cstr
  /\ out[n] = 0
  /\ \A i \in (k + 1)..(n - 1) : out[i] # 0

\* C12: for every string, encode writes exactly get_entry_size() bytes: the
\* ULEB128 form of utfsize, then the raw bytes, then one zero byte;
\* get_entry_size() is the size of that prefix plus the raw length plus one,
\* and "hello" with utfsize 5 has size 7 and bytes 05 'h' 'e' 'l' 'l' 'o' 00.
C12_EncodeWritesEntry ==
  /\ \A s \in StringPtrs : EncodesAsEntry(strings[s])
  /\ DexString_get_entry_size(DexString_new(Hello, 5)) = 7
  /\ SubSeq(DexString_encode(DexString_new(Hello, 5), Output(7 + EncodeSlack)), 1, 7)
       = << 5 >> \o Hello \o << 0 >>
  /\ \A s \in StringPtrs :
       /\ strings[s].utfsize < 128 =>
            DexString_get_entry_size(strings[s]) = 1 + strlen(strings[s].cstr) + 1
       /\ (strings[s].utfsize >= 128 /\ strings[s].utfsize < 16384) =>
            DexString_get_entry_size(strings[s]) = 2 + strlen(strings[s].cstr) + 1

\* a string whose length prefix takes two bytes was encoded
C12_Witness ==
  /\ ret.op = "encode"
  /\ \E s \in StringPtrs :
       /\ strings[s].utfsize >= 128
       /\ ret.val = DexString_encode(strings[s], EntryOutput(strings[s]))
       /\ ret.val[1] >= 128

(***************************************************************************)
(* Properties of is_def.                                                   *)
(***************************************************************************)
\* get_access on a member: returns m_access when is_def(), is fatal otherwise
GetAccessFollowsIsDef ==
  /\ \A f \in FieldPtrs :
       IF DexField_is_def(fields[f])
       THEN Returned(DexField_get_access(fields[f]), fields[f], fields[f].m_access)
       ELSE Rejected(DexField_get_access(fields[f]), fields[f])
  /\ \A m \in MethodPtrs :
       IF DexMethod_is_def(methods[m])
       THEN Returned(DexMethod_get_access(methods[m]), methods[m], methods[m].m_access)
       ELSE Rejected(DexMethod_get_access(methods[m]), methods[m])

\* a reference as make_field / make_method creates it is not a definition
BareReferenceIsNotDef ==
  /\ \A c \in TypePtrs, n \in StringPtrs, t \in TypePtrs :
       LET made == DexField_make_field(<< >>, << >>, c, n, t) IN
       /\ ~DexField_is_def(made.heap[made.val])
       /\ Rejected(DexField_get_access(made.heap[made.val]), made.heap[made.val])
  /\ \A c \in TypePtrs, n \in StringPtrs, p \in ProtoPtrs :
       LET made == DexMethod_make_method(<< >>, << >>, c, n, p) IN
       /\ ~DexMethod_is_def(made.heap[made.val])
       /\ Rejected(DexMethod_get_access(made.heap[made.val]), made.heap[made.val])

\* a step keeps every member that is_def() a member that is_def()
IsDefKept ==
  /\ \A f \in FieldPtrs :
       DexField_is_def(fields[f]) => (f \in DOMAIN fields' /\ DexField_is_def(fields'[f]))
  /\ \A m \in MethodPtrs :
       DexMethod_is_def(methods[m]) => (m \in DOMAIN methods' /\ DexMethod_is_def(methods'[m]))

\* C13: is_def() of a Field or Method is monotonic.  The reference a run starts
\* with, like every reference just made, has is_def() false and get_access on
\* it is fatal; set_external and make_concrete, when they succeed, make
\* is_def() true; no operation of the member (get_access, set_access,
\* set_virtual, set_code, set_external, make_concrete, attach and clear of
\* annotations, change_class, change_proto) makes a true is_def() false; and in
\* every state get_access returns the access flags exactly when is_def() holds.
C13_IsDefIsMonotonic ==
  /\ \A f \in FieldPtrs : ~DexField_is_def(fields[f])
  /\ \A m \in MethodPtrs : ~DexMethod_is_def(methods[m])
  /\ [](GetAccessFollowsIsDef /\ BareReferenceIsNotDef)
  /\ [](/\ \A f \in FieldPtrs :
             /\ ~DexField_set_external(fields[f]).fatal
                  => DexField_is_def(DexField_set_external(fields[f]).obj)
             /\ \A access \in AccessFlags :
                  ~DexField_make_concrete(fields[f], access).fatal
                    => DexField_is_def(DexField_make_concrete(fields[f], access).obj)
        /\ \A m \in MethodPtrs :
             /\ ~DexMethod_set_external(methods[m]).fatal
                  => DexMethod_is_def(DexMethod_set_external(methods[m]).obj)
             /\ \A access \in AccessFlags, dc \in Codes, is_virtual \in BOOLEAN :
                  ~DexMethod_make_concrete(methods[m], access, dc, is_virtual).fatal
                    => DexMethod_is_def(
                         DexMethod_make_concrete(methods[m], access, dc, is_virtual).obj))
  /\ [][IsDefKept]_vars

\* a method that was given an annotation set, made concrete, had its
\* annotations cleared, its code set and its class changed, and whose
\* get_access then returned
C13_Witness ==
  /\ ret.op = "DexMethod::get_access"
  /\ \E m \in MethodPtrs :
       /\ DexMethod_is_def(methods[m])
       /\ methods[m].m_concrete
       /\ methods[m].n_attached >= 1
       /\ methods[m].m_anno = NULL
       /\ methods[m].m_code # NULL
       /\ methods[m].m_class # LoadedM.heap[LoadedM.val].m_class
       /\ methods[m].m_proto # LoadedM.heap[LoadedM.val].m_proto
       /\ ret.val = methods[m].m_access

====
